---- MODULE Spec2Model ----
(***************************************************************************)
(* CLI infrastructure of Citadel: the circuit breaker, the concurrency     *)
(* limiter, the process supervisor that composes them, and the             *)
(* stale-while-revalidate cache that sits beside the supervisor.           *)
(*                                                                         *)
(*   src/src/cli/circuitBreaker.ts      CircuitBreaker                     *)
(*   src/src/cli/concurrencyLimiter.ts  ConcurrencyLimiter                 *)
(*   src/unnamed/part_003               ProcessSupervisor                  *)
(*   src/unnamed/part_002               SWRCache                           *)
(*                                                                         *)
(* The host is single-threaded: every action below is one synchronous span *)
(* of the event loop (an API call, or the delivery of one completion with  *)
(* the promise reactions it triggers).                                     *)
(***************************************************************************)
EXTENDS Integers, Sequences, FiniteSets, TLC

\* ------------------------------------------------------------------ bounds
MaxThreshold == 2
MaxResetTime == 2
MaxTime == 6
MaxSupervisorTime == 2
MaxConcurrency == 2
MaxCalls == 3
MaxCacheTime == 3
MaxTtl == 2
MaxFetches == 2
MaxRefetches == 4

\* recordFailure() keeps counting while OPEN; the model stops it here.
MaxFailures == MaxThreshold + 2

\* --------------------------------------------------------- program constants
halfOpenSuccessThreshold == 2

VARIABLES
    threshold,          \* CircuitBreaker.threshold (constructor argument)
    resetTimeMs,        \* CircuitBreaker.resetTimeMs (constructor argument)
    maxConcurrency,     \* ConcurrencyLimiter.maxConcurrency (constructor argument)
    now,                \* Date.now()
    cb,                 \* the CircuitBreaker's fields
    canExecuteResult,   \* what the last canExecute() call returned
    cbBefore,           \* the CircuitBreaker's fields before the last breaker operation
    failStreak,         \* recordFailure() calls in a row since construction or reset(); -1: broken
    okStreak,           \* recordSuccess() calls made in HALF_OPEN since it was last entered
    runLength,          \* recordFailure() calls since the last recordSuccess(), reset() or construction
    failedAt,           \* Date.now() at the last recordFailure() call (0: none yet)
    lastOp,             \* the operation the last step performed
    queue,              \* ConcurrencyLimiter.queue
    inFlight,           \* ConcurrencyLimiter.inFlight: dedupe key -> the execution whose promise it holds
    activeCount,        \* ConcurrencyLimiter.activeCount
    running,            \* executions the executor has started and that have not settled
    calls,              \* every execute() call so far, with what its caller has observed
    settled,            \* the calls the last step settled: call id -> outcome
    delivered,          \* what the completion the last step delivered held: <<>> when it delivered none
    startOrder,         \* limiter alone: ids of the requests in the order the executor was started for them
    doneOrder,          \* limiter alone: ids of the requests in the order their executions settled
    executors,          \* limiter alone: the executor each call passed, and the one called for each started request
    destroyed,          \* ProcessSupervisor.destroyed
    totalSpawned,       \* ProcessSupervisor.totalSpawned
    activeProcesses,    \* ProcessSupervisor.activeProcesses (ids of the tracked children)
    children,           \* the child processes whose completion has not been delivered: id -> start time
    canExecuteCalled,   \* whether the last step called circuitBreaker.canExecute()
    trials,             \* successes recorded since HALF_OPEN was entered, of invocations admitted in HALF_OPEN
    cache,              \* SWRCache.cache: key -> entry
    pendingRevalidations, \* SWRCache.pendingRevalidations: key -> the fetch whose promise it holds
    fetches,            \* the fetcher() calls whose promise has not settled
    fetcherCalls,       \* the number of fetcher() calls made so far
    cacheOp,            \* the cache operation the last step performed and what its caller got
    invalidated         \* the keys invalidate() was called for and get() has not been called for since

configVars == <<threshold, resetTimeMs, maxConcurrency>>
breakerVars == <<cb, canExecuteResult, cbBefore, failStreak, okStreak, runLength, failedAt>>
limiterVars ==
    <<queue, inFlight, activeCount, running, calls, settled, delivered, startOrder, doneOrder,
      executors>>
supervisorVars ==
    <<destroyed, totalSpawned, activeProcesses, children, canExecuteCalled, trials>>
cacheVars == <<cache, pendingRevalidations, fetches, fetcherCalls, cacheOp, invalidated>>
vars == <<configVars, now, lastOp, breakerVars, limiterVars, supervisorVars, cacheVars>>

\* ============================================================ CircuitBreaker

CircuitStates == {"CLOSED", "OPEN", "HALF_OPEN"}

NewBreaker ==
    [state |-> "CLOSED", failureCount |-> 0, lastFailureTime |-> 0, successCount |-> 0]

reset_keepsStamp(b) ==
    [state |-> "CLOSED", failureCount |-> 0, lastFailureTime |-> b.lastFailureTime,
     successCount |-> 0]

reset_keepsFailures(b) ==
    [state |-> "CLOSED", failureCount |-> b.failureCount, lastFailureTime |-> 0,
     successCount |-> 0]

\* reset(): force CLOSED with every counter zeroed.
reset(b) ==
    [state |-> "CLOSED", failureCount |-> 0, lastFailureTime |-> 0, successCount |-> 0]

canExecute_strictElapsed(b, t) ==
    IF b.state = "CLOSED" THEN [cb |-> b, result |-> TRUE]
    ELSE IF b.state = "OPEN" THEN
        IF t - b.lastFailureTime > resetTimeMs
        THEN [cb |-> [b EXCEPT !.state = "HALF_OPEN", !.successCount = 0], result |-> TRUE]
        ELSE [cb |-> b, result |-> FALSE]
    ELSE [cb |-> b, result |-> TRUE]

\* canExecute() at time t: the breaker afterwards and the value returned.
canExecute(b, t) ==
    IF b.state = "CLOSED" THEN [cb |-> b, result |-> TRUE]
    ELSE IF b.state = "OPEN" THEN
        IF t - b.lastFailureTime >= resetTimeMs
        THEN [cb |-> [b EXCEPT !.state = "HALF_OPEN", !.successCount = 0], result |-> TRUE]
        ELSE [cb |-> b, result |-> FALSE]
    ELSE [cb |-> b, result |-> TRUE]

recordSuccess_closeAtOnce(b) ==
    IF b.state = "HALF_OPEN" THEN reset(b)
    ELSE IF b.state = "CLOSED" THEN [b EXCEPT !.failureCount = 0]
    ELSE b

recordSuccess_keepsCount(b) ==
    IF b.state = "HALF_OPEN" THEN
        LET counted == [b EXCEPT !.successCount = b.successCount + 1]
        IN  IF counted.successCount >= halfOpenSuccessThreshold THEN reset(counted) ELSE counted
    ELSE b

recordSuccess_countsWhileOpen(b) ==
    IF b.state = "HALF_OPEN" THEN
        LET counted == [b EXCEPT !.successCount = b.successCount + 1]
        IN  IF counted.successCount >= halfOpenSuccessThreshold THEN reset(counted) ELSE counted
    ELSE [b EXCEPT !.failureCount = 0]

\* recordSuccess()
recordSuccess(b) ==
    IF b.state = "HALF_OPEN" THEN
        LET counted == [b EXCEPT !.successCount = b.successCount + 1]
        IN  IF counted.successCount >= halfOpenSuccessThreshold THEN reset(counted) ELSE counted
    ELSE IF b.state = "CLOSED" THEN [b EXCEPT !.failureCount = 0]
    ELSE b

recordFailure_offByOne(b, t) ==
    LET counted == [b EXCEPT !.failureCount = b.failureCount + 1, !.lastFailureTime = t]
    IN  IF b.state = "HALF_OPEN" THEN [counted EXCEPT !.state = "OPEN"]
        ELSE IF counted.failureCount > threshold THEN [counted EXCEPT !.state = "OPEN"]
        ELSE counted

recordFailure_toleratesOne(b, t) ==
    LET counted == [b EXCEPT !.failureCount = b.failureCount + 1, !.lastFailureTime = t]
    IN  IF b.state = "HALF_OPEN" /\ b.successCount = 0 THEN [counted EXCEPT !.state = "OPEN"]
        ELSE IF b.state = "HALF_OPEN" THEN counted
        ELSE IF counted.failureCount >= threshold THEN [counted EXCEPT !.state = "OPEN"]
        ELSE counted

recordFailure_keepsStampWhileOpen(b, t) ==
    LET counted == [b EXCEPT !.failureCount = b.failureCount + 1,
                             !.lastFailureTime = IF b.state = "OPEN" THEN b.lastFailureTime ELSE t]
    IN  IF b.state = "HALF_OPEN" THEN [counted EXCEPT !.state = "OPEN"]
        ELSE IF counted.failureCount >= threshold THEN [counted EXCEPT !.state = "OPEN"]
        ELSE counted

\* recordFailure() at time t
recordFailure(b, t) ==
    LET counted == [b EXCEPT !.failureCount = b.failureCount + 1, !.lastFailureTime = t]
    IN  IF b.state = "HALF_OPEN" THEN [counted EXCEPT !.state = "OPEN"]
        ELSE IF counted.failureCount >= threshold THEN [counted EXCEPT !.state = "OPEN"]
        ELSE counted

\* ======================================================== ConcurrencyLimiter

\* CLICommandConfig values the callers pass. dedupe is TRUE for an absent or true
\* flag (the code tests config.dedupe !== false).
Commands == {"gt", "bd"}
ArgLists == {<<"status">>}
Configs == [command : Commands, args : ArgLists, dedupe : BOOLEAN]

\* Array.prototype.join
RECURSIVE join(_, _)
join(args, sep) ==
    IF Len(args) = 0 THEN ""
    ELSE IF Len(args) = 1 THEN args[1]
    ELSE args[1] \o sep \o join(Tail(args), sep)

\* getDedupeKey(config)
getDedupeKey(config) == config.command \o ":" \o join(config.args, ":")

\* Map.prototype.set / delete / clear on the inFlight map
NoEntries == [k \in {} |-> 0]
MapSet(m, k, v) == [x \in DOMAIN m \cup {k} |-> IF x = k THEN v ELSE m[x]]
MapDelete(m, k) == [x \in DOMAIN m \ {k} |-> m[x]]

\* What a caller's promise holds: nothing yet, the value an execution resolved
\* with, or the error it was rejected with. src is the id of the request whose
\* execution produced it (0: no execution did).
Pending == [kind |-> "pending", src |-> 0, value |-> "none"]
QueueCleared == [kind |-> "rejected", src |-> 0, value |-> "Queue cleared"]
ExecutorOutcomes == {"resolved", "rejected"}
ExecutorOutcome(request, kind) ==
    [kind |-> kind, src |-> request.id,
     value |-> IF kind = "resolved" THEN "result" ELSE "error"]

RECURSIVE processQueue_overAdmit(_)
processQueue_overAdmit(L) ==
    IF Len(L.queue) > 0 /\ L.activeCount <= maxConcurrency THEN
        LET request == Head(L.queue)
            key == getDedupeKey(request.config)
        IN  processQueue_overAdmit(
                [queue |-> Tail(L.queue),
                 activeCount |-> L.activeCount + 1,
                 inFlight |-> IF request.config.dedupe
                              THEN MapSet(L.inFlight, key, request.id)
                              ELSE L.inFlight,
                 started |-> Append(L.started, request)])
    ELSE L

RECURSIVE processQueue_lifo(_)
processQueue_lifo(L) ==
    IF Len(L.queue) > 0 /\ L.activeCount < maxConcurrency THEN
        LET request == L.queue[Len(L.queue)]
            key == getDedupeKey(request.config)
        IN  processQueue_lifo(
                [queue |-> SubSeq(L.queue, 1, Len(L.queue) - 1),
                 activeCount |-> L.activeCount + 1,
                 inFlight |-> IF request.config.dedupe
                              THEN MapSet(L.inFlight, key, request.id)
                              ELSE L.inFlight,
                 started |-> Append(L.started, request)])
    ELSE L

RECURSIVE processQueue_registersAll(_)
processQueue_registersAll(L) ==
    IF Len(L.queue) > 0 /\ L.activeCount < maxConcurrency THEN
        LET request == Head(L.queue)
            key == getDedupeKey(request.config)
        IN  processQueue_registersAll(
                [queue |-> Tail(L.queue),
                 activeCount |-> L.activeCount + 1,
                 inFlight |-> MapSet(L.inFlight, key, request.id),
                 started |-> Append(L.started, request)])
    ELSE L

\* processQueue(): the loop that starts queued requests while a slot is free.
\* L holds the limiter's queue, activeCount and inFlight and, in started, the
\* requests the executor was called for, in the order of the calls.
RECURSIVE processQueue(_)
processQueue(L) ==
    IF Len(L.queue) > 0 /\ L.activeCount < maxConcurrency THEN
        LET request == Head(L.queue)
            key == getDedupeKey(request.config)
        IN  processQueue(
                [queue |-> Tail(L.queue),
                 activeCount |-> L.activeCount + 1,
                 inFlight |-> IF request.config.dedupe
                              THEN MapSet(L.inFlight, key, request.id)
                              ELSE L.inFlight,
                 started |-> Append(L.started, request)])
    ELSE L

\* The part of execute() before the promise is built: the in-flight execution
\* this call is handed, or 0 when the call has to be queued.
existing(config) ==
    IF config.dedupe /\ getDedupeKey(config) \in DOMAIN inFlight
    THEN inFlight[getDedupeKey(config)]
    ELSE 0

\* execute(), when no in-flight promise is returned: push, then processQueue().
enqueue(request) ==
    processQueue([queue |-> Append(queue, request), activeCount |-> activeCount,
                  inFlight |-> inFlight, started |-> <<>>])

finally_noDrain(request) ==
    [queue |-> queue, activeCount |-> activeCount - 1,
     inFlight |-> MapDelete(inFlight, getDedupeKey(request.config)), started |-> <<>>]

finally_keepsSlot(request) ==
    processQueue([queue |-> queue, activeCount |-> activeCount,
                  inFlight |-> MapDelete(inFlight, getDedupeKey(request.config)),
                  started |-> <<>>])

\* The .finally() handler of a started request: give the slot back, drop the
\* key, processQueue().
finally(request) ==
    processQueue([queue |-> queue, activeCount |-> activeCount - 1,
                  inFlight |-> MapDelete(inFlight, getDedupeKey(request.config)),
                  started |-> <<>>])

settleCallers_masksError(request, o) ==
    [c \in DOMAIN calls |->
        IF calls[c].awaits = request.id /\ calls[c].outcome.kind = "pending"
        THEN [calls[c] EXCEPT !.outcome = [o EXCEPT !.kind = "resolved"]]
        ELSE calls[c]]

\* The callers' promises after the execution of `request` settled with outcome o:
\* request.resolve/reject settles the call that queued it, and the promise kept
\* in inFlight settles every call that was handed it.
settleCallers(request, o) ==
    [c \in DOMAIN calls |->
        IF calls[c].awaits = request.id /\ calls[c].outcome.kind = "pending"
        THEN [calls[c] EXCEPT !.outcome = o]
        ELSE calls[c]]

clearCallers_silent == calls

\* clear(): reject what is queued; the executing requests are left alone.
clearCallers ==
    [c \in DOMAIN calls |->
        IF \E i \in DOMAIN queue : queue[i].id = c
        THEN [calls[c] EXCEPT !.outcome = QueueCleared]
        ELSE calls[c]]

\* The calls a step settles, given the calls after it: id -> outcome.
settledIn(after) ==
    [c \in {d \in DOMAIN calls : calls[d].outcome.kind = "pending"
                                  /\ after[d].outcome.kind # "pending"} |-> after[c].outcome]

Ids(requests) == [i \in DOMAIN requests |-> requests[i].id]
Range(f) == {f[i] : i \in DOMAIN f}
PendingCalls == {c \in DOMAIN calls : calls[c].outcome.kind = "pending"}

\* ---------------------------------------------- the breaker driven on its own

InitLimiter ==
    /\ queue = <<>>
    /\ inFlight = NoEntries
    /\ activeCount = 0
    /\ running = {}
    /\ calls = <<>>
    /\ settled = NoEntries
    /\ delivered = <<>>
    /\ startOrder = <<>>
    /\ doneOrder = <<>>
    /\ executors = [passed |-> NoEntries, ran |-> NoEntries]

InitSupervisor ==
    /\ destroyed = FALSE
    /\ totalSpawned = 0
    /\ activeProcesses = {}
    /\ children = NoEntries
    /\ canExecuteCalled = FALSE
    /\ trials = 0

\* What cacheOp holds: the operation, its key and ttlMs argument, the path get()
\* took ("fresh", "stale", "miss") or the kind of the fetch that settled, the
\* value handed to the caller (0: none), the fetch started or settled (0: none)
\* and whether the caller was answered without an error.
CacheOp(op, key, ttl, path, value, fetch, ok) ==
    [op |-> op, key |-> key, ttl |-> ttl, path |-> path, value |-> value, fetch |-> fetch,
     ok |-> ok]
NoCacheOp == CacheOp("new", "", 0, "", 0, 0, TRUE)

InitCache ==
    /\ cache = NoEntries
    /\ pendingRevalidations = NoEntries
    /\ fetches = {}
    /\ fetcherCalls = 0
    /\ cacheOp = NoCacheOp
    /\ invalidated = {}

InitBreaker ==
    /\ threshold \in 1..MaxThreshold
    /\ resetTimeMs \in 1..MaxResetTime
    /\ maxConcurrency = 1
    /\ now = 1
    /\ cb = NewBreaker
    /\ canExecuteResult = TRUE
    /\ cbBefore = NewBreaker
    /\ failStreak = 0
    /\ okStreak = 0
    /\ runLength = 0
    /\ failedAt = 0
    /\ lastOp = "new"
    /\ InitLimiter
    /\ InitSupervisor
    /\ InitCache

BreakerFrame == UNCHANGED <<configVars, limiterVars, supervisorVars, cacheVars>>

\* Date.now() moves on between two operations.
Tick ==
    /\ now < MaxTime
    /\ now' = now + 1
    /\ lastOp' = "tick"
    /\ UNCHANGED <<configVars, breakerVars, limiterVars, supervisorVars, cacheVars>>

CanExecute ==
    LET r == canExecute(cb, now)
    IN  /\ cb' = r.cb
        /\ canExecuteResult' = r.result
        /\ cbBefore' = cb
        /\ failStreak' = IF r.cb.state = cb.state THEN failStreak ELSE -1
        /\ okStreak' = IF r.cb.state = cb.state THEN okStreak ELSE 0
        /\ lastOp' = "canExecute"
        /\ UNCHANGED <<now, runLength, failedAt>>
        /\ BreakerFrame

RecordSuccess ==
    /\ cb' = recordSuccess(cb)
    /\ cbBefore' = cb
    /\ failStreak' = -1
    /\ okStreak' = IF cb.state = "HALF_OPEN" THEN okStreak + 1 ELSE okStreak
    /\ runLength' = 0
    /\ failedAt' = failedAt
    /\ lastOp' = "recordSuccess"
    /\ UNCHANGED <<now, canExecuteResult>>
    /\ BreakerFrame

RecordFailure ==
    /\ cb.failureCount < MaxFailures
    /\ cb' = recordFailure(cb, now)
    /\ cbBefore' = cb
    /\ failStreak' = IF failStreak >= 0 THEN failStreak + 1 ELSE -1
    /\ okStreak' = 0
    /\ runLength' = runLength + 1
    /\ failedAt' = now
    /\ lastOp' = "recordFailure"
    /\ UNCHANGED <<now, canExecuteResult>>
    /\ BreakerFrame

Reset ==
    /\ cb' = reset(cb)
    /\ cbBefore' = cb
    /\ failStreak' = 0
    /\ okStreak' = 0
    /\ runLength' = 0
    /\ failedAt' = failedAt
    /\ lastOp' = "reset"
    /\ UNCHANGED <<now, canExecuteResult>>
    /\ BreakerFrame

NextBreaker ==
    \/ Tick
    \/ CanExecute
    \/ RecordSuccess
    \/ RecordFailure
    \/ Reset

SpecBreaker == InitBreaker /\ [][NextBreaker]_vars

\* ------------------------------------------------------- breaker properties

\* C7: from a fresh or reset breaker, `threshold` recordFailure() calls in a row
\* (no recordSuccess() between them) leave it OPEN, and fewer leave it CLOSED
\* with canExecute() true.
BreakerThreshold ==
    /\ (failStreak >= 0 /\ failStreak < threshold) =>
            (cb.state = "CLOSED" /\ canExecute(cb, now).result = TRUE)
    /\ failStreak >= threshold => cb.state = "OPEN"

BreakerThresholdWitness ==
    /\ threshold >= 2
    /\ failStreak = threshold
    /\ lastOp = "recordFailure"
    /\ cbBefore.state = "CLOSED"
    /\ cb.state = "OPEN"

\* C8: canExecute() on an OPEN breaker returns false and stays OPEN while less
\* than resetTimeMs has passed since lastFailureTime; from then on it returns
\* true and enters HALF_OPEN with successCount = 0.
BreakerCoolDown ==
    (lastOp = "canExecute" /\ cbBefore.state = "OPEN") =>
        IF now - cbBefore.lastFailureTime < resetTimeMs
        THEN canExecuteResult = FALSE /\ cb = cbBefore
        ELSE /\ canExecuteResult = TRUE
             /\ cb = [cbBefore EXCEPT !.state = "HALF_OPEN", !.successCount = 0]

BreakerCoolDownWitness ==
    /\ lastOp = "canExecute"
    /\ cbBefore.state = "OPEN"
    /\ cbBefore.successCount = 1
    /\ resetTimeMs >= 2
    /\ now - cbBefore.lastFailureTime = resetTimeMs
    /\ cb.state = "HALF_OPEN"
    /\ cb.successCount = 0
    /\ canExecuteResult = TRUE

\* C9: in HALF_OPEN the first recordSuccess() leaves the breaker HALF_OPEN with
\* successCount = 1, and the second one in a row closes it with every counter
\* back to zero.
HalfOpenRecovery ==
    (lastOp = "recordSuccess" /\ cbBefore.state = "HALF_OPEN") =>
        \/ okStreak = 1 /\ cb = [cbBefore EXCEPT !.successCount = 1]
        \/ okStreak = 2 /\ cb = NewBreaker

HalfOpenRecoveryWitness ==
    /\ lastOp = "recordSuccess"
    /\ cbBefore.state = "HALF_OPEN"
    /\ okStreak = 2
    /\ cb.state = "CLOSED"

\* C10 (as the claim states it): a recordFailure() in HALF_OPEN re-opens the
\* breaker, stamps lastFailureTime and leaves no partial success count behind.
HalfOpenFailureDiscardsCount ==
    (lastOp = "recordFailure" /\ cbBefore.state = "HALF_OPEN") =>
        /\ cb.state = "OPEN"
        /\ cb.lastFailureTime = now
        /\ cb.successCount = 0

\* C10 (amended): a recordFailure() in HALF_OPEN, after 0 or 1 successes,
\* re-opens the breaker and stamps lastFailureTime; successCount keeps its
\* value while OPEN and is zeroed when canExecute() next enters HALF_OPEN.
HalfOpenFailureReopens ==
    /\ (lastOp = "recordFailure" /\ cbBefore.state = "HALF_OPEN") =>
            /\ cb.state = "OPEN"
            /\ cb.lastFailureTime = now
            /\ cb.successCount = cbBefore.successCount
            /\ cb.failureCount = cbBefore.failureCount + 1
    /\ (lastOp = "canExecute" /\ cbBefore.state = "OPEN" /\ cb.state = "HALF_OPEN") =>
            cb.successCount = 0

HalfOpenFailureReopensWitness ==
    /\ lastOp = "recordFailure"
    /\ cbBefore.state = "HALF_OPEN"
    /\ cbBefore.successCount = 1
    /\ cb.state = "OPEN"
    /\ cb.successCount = 1

\* C11: a recordSuccess() on a CLOSED breaker zeroes failureCount and changes
\* nothing else; while CLOSED, failureCount is the number of recordFailure()
\* calls since the last recordSuccess() or reset() and is below the threshold;
\* and the recordFailure() that opens a CLOSED breaker is the threshold-th since
\* the last recordSuccess() or reset().
SuccessClearsFailures ==
    /\ (lastOp = "recordSuccess" /\ cbBefore.state = "CLOSED") =>
            cb = [cbBefore EXCEPT !.failureCount = 0]
    /\ cb.state = "CLOSED" => (cb.failureCount = runLength /\ runLength < threshold)
    /\ (lastOp = "recordFailure" /\ cbBefore.state = "CLOSED" /\ cb.state = "OPEN") =>
            runLength = threshold

SuccessClearsFailuresWitness ==
    /\ threshold >= 2
    /\ lastOp = "recordSuccess"
    /\ cbBefore.state = "CLOSED"
    /\ cbBefore.failureCount = threshold - 1
    /\ cb.state = "CLOSED"
    /\ cb.failureCount = 0

\* C12: a recordSuccess() on an OPEN breaker leaves state, failureCount,
\* successCount and lastFailureTime as they were.
SuccessWhileOpenIsNoOp ==
    (lastOp = "recordSuccess" /\ cbBefore.state = "OPEN") =>
        /\ cb.state = "OPEN"
        /\ cb.failureCount = cbBefore.failureCount
        /\ cb.successCount = cbBefore.successCount
        /\ cb.lastFailureTime = cbBefore.lastFailureTime

SuccessWhileOpenIsNoOpWitness ==
    /\ lastOp = "recordSuccess"
    /\ cbBefore.state = "OPEN"
    /\ cbBefore.successCount = 1
    /\ cbBefore.failureCount > threshold
    /\ cb = cbBefore

\* C13: reset(), whatever the breaker held before, leaves it CLOSED with
\* failureCount, successCount and lastFailureTime at 0, and a canExecute() made
\* then returns true and keeps it so.
ResetClosesBreaker ==
    lastOp = "reset" =>
        /\ cb.state = "CLOSED"
        /\ cb.failureCount = 0
        /\ cb.successCount = 0
        /\ cb.lastFailureTime = 0
        /\ canExecute(cb, now).result = TRUE
        /\ canExecute(cb, now).cb = cb

ResetClosesBreakerWitness ==
    /\ lastOp = "reset"
    /\ cbBefore.state = "OPEN"
    /\ cbBefore.successCount = 1
    /\ cbBefore.lastFailureTime > 1
    /\ now - cbBefore.lastFailureTime < resetTimeMs
    /\ cb = NewBreaker

\* C38: in every reachable state of a breaker built with threshold >= 1, a
\* CLOSED breaker has counted fewer failures than the threshold, and an OPEN or
\* HALF_OPEN one has counted at least the threshold.
CountMatchesState ==
    /\ cb.state = "CLOSED" => cb.failureCount < threshold
    /\ cb.state \in {"OPEN", "HALF_OPEN"} => cb.failureCount >= threshold

CountMatchesStateWitness ==
    /\ threshold >= 2
    /\ lastOp = "recordSuccess"
    /\ cb.state = "HALF_OPEN"
    /\ cb.successCount = 1
    /\ cb.failureCount = threshold + 1

\* C36: a recordFailure() on an OPEN breaker leaves it OPEN, adds one to
\* failureCount and stamps lastFailureTime with the current time; so while OPEN
\* the stamp is the time of the last recordFailure() call, and canExecute()
\* admits again exactly when resetTimeMs has passed since that call.
FailureWhileOpenRestartsCoolDown ==
    /\ (lastOp = "recordFailure" /\ cbBefore.state = "OPEN") =>
            cb = [cbBefore EXCEPT !.failureCount = cbBefore.failureCount + 1,
                                  !.lastFailureTime = now]
    /\ cb.state = "OPEN" =>
            /\ cb.lastFailureTime = failedAt
            /\ canExecute(cb, now).result = (now - failedAt >= resetTimeMs)

FailureWhileOpenRestartsCoolDownWitness ==
    /\ lastOp = "recordFailure"
    /\ cbBefore.state = "OPEN"
    /\ now - cbBefore.lastFailureTime >= resetTimeMs
    /\ cb.state = "OPEN"
    /\ cb.failureCount = threshold + 1
    /\ cb.lastFailureTime = now
    /\ canExecute(cb, now).result = FALSE

\* --------------------------------------------- the limiter driven on its own

InitLimiterAlone ==
    /\ threshold = 1
    /\ resetTimeMs = 1
    /\ maxConcurrency \in 1..MaxConcurrency
    /\ now = 1
    /\ cb = NewBreaker
    /\ canExecuteResult = TRUE
    /\ cbBefore = NewBreaker
    /\ failStreak = 0
    /\ okStreak = 0
    /\ runLength = 0
    /\ failedAt = 0
    /\ lastOp = "new"
    /\ InitLimiter
    /\ InitSupervisor
    /\ InitCache

LimiterFrame == UNCHANGED <<configVars, now, breakerVars, supervisorVars, cacheVars>>

\* The executor functions the callers pass to execute().
Executors == {"executorA", "executorB"}

\* processQueue(executor) calls its argument for every request it starts.
executed(started, executor) ==
    [id \in DOMAIN executors.ran \cup Range(Ids(started)) |->
        IF id \in DOMAIN executors.ran THEN executors.ran[id] ELSE executor]

\* ConcurrencyLimiter.execute(config, executor)
LimiterExecuteWith(config, executor) ==
    LET id == Len(calls) + 1
        call == [config |-> config, awaits |-> id, outcome |-> Pending,
                 concurrent |-> PendingCalls, waited |-> FALSE]
    IN  /\ id <= MaxCalls
        /\ lastOp' = "execute"
        /\ settled' = NoEntries
        /\ delivered' = <<>>
        /\ IF existing(config) # 0
           THEN /\ calls' = Append(calls, [call EXCEPT !.awaits = existing(config)])
                /\ executors' = [executors EXCEPT !.passed = MapSet(@, id, executor)]
                /\ UNCHANGED <<queue, inFlight, activeCount, running, startOrder, doneOrder>>
           ELSE LET L == enqueue([id |-> id, config |-> config])
                IN  /\ queue' = L.queue
                    /\ activeCount' = L.activeCount
                    /\ inFlight' = L.inFlight
                    /\ running' = running \cup Range(L.started)
                    /\ startOrder' = startOrder \o Ids(L.started)
                    /\ calls' = Append(calls, [call EXCEPT !.waited = id \notin Range(Ids(L.started))])
                    /\ executors' = [passed |-> MapSet(executors.passed, id, executor),
                                     ran |-> executed(L.started, executor)]
                    /\ UNCHANGED doneOrder
        /\ LimiterFrame

\* execute() by callers that all pass the same executor, as ProcessSupervisor does.
LimiterExecute(config) == LimiterExecuteWith(config, "executorA")

\* The executor's promise for a started request settles: the .then/.catch
\* handler settles the callers, the .finally handler frees the slot and drains.
LimiterSettle(request, kind) ==
    LET L == finally(request)
    IN  /\ request \in running
        /\ lastOp' = "settle"
        /\ calls' = settleCallers(request, ExecutorOutcome(request, kind))
        /\ settled' = settledIn(settleCallers(request, ExecutorOutcome(request, kind)))
        /\ delivered' = <<ExecutorOutcome(request, kind)>>
        /\ queue' = L.queue
        /\ activeCount' = L.activeCount
        /\ inFlight' = L.inFlight
        /\ running' = (running \ {request}) \cup Range(L.started)
        /\ startOrder' = startOrder \o Ids(L.started)
        /\ doneOrder' = Append(doneOrder, request.id)
        /\ executors' = [executors EXCEPT !.ran = executed(L.started, executors.ran[request.id])]
        /\ LimiterFrame

\* ConcurrencyLimiter.clear()
LimiterClear ==
    /\ lastOp' = "clear"
    /\ calls' = clearCallers
    /\ settled' = settledIn(clearCallers)
    /\ delivered' = <<>>
    /\ queue' = <<>>
    /\ inFlight' = NoEntries
    /\ UNCHANGED <<activeCount, running, startOrder, doneOrder, executors>>
    /\ LimiterFrame

NextLimiter ==
    \/ \E config \in Configs : LimiterExecute(config)
    \/ \E request \in running, kind \in ExecutorOutcomes : LimiterSettle(request, kind)
    \/ LimiterClear

SpecLimiter == InitLimiterAlone /\ [][NextLimiter]_vars

\* The limiter when every started executor eventually settles: the promise of
\* each started request is settled at some time, one way or the other.
ExecutorSettles(id) ==
    \E request \in running, kind \in ExecutorOutcomes :
        request.id = id /\ LimiterSettle(request, kind)

FairConfigs == [command : {"gt"}, args : ArgLists, dedupe : BOOLEAN]

NextLimiterFair ==
    \/ \E config \in FairConfigs : LimiterExecute(config)
    \/ \E request \in running, kind \in ExecutorOutcomes : LimiterSettle(request, kind)
    \/ LimiterClear

SpecLimiterFair ==
    InitLimiterAlone /\ [][NextLimiterFair]_vars
        /\ \A id \in 1..MaxCalls : WF_vars(ExecutorSettles(id))

\* The same without clear(): execute() calls and executor settlements only.
NextLimiterCalls ==
    \/ \E config \in Configs : LimiterExecute(config)
    \/ \E request \in running, kind \in ExecutorOutcomes : LimiterSettle(request, kind)

SpecLimiterCalls == InitLimiterAlone /\ [][NextLimiterCalls]_vars

\* Callers that pass different executors.
NextLimiterExecutors ==
    \/ \E config \in FairConfigs, executor \in Executors : LimiterExecuteWith(config, executor)
    \/ \E request \in running, kind \in ExecutorOutcomes : LimiterSettle(request, kind)

SpecLimiterExecutors == InitLimiterAlone /\ [][NextLimiterExecutors]_vars

\* Calls that also pass the optional timeout and cwd of CLICommandConfig: the
\* same command and args under options that differ in one or in both.
Options ==
    { [timeout |-> 30000, cwd |-> "/repo"],
      [timeout |-> 60000, cwd |-> "/repo"],
      [timeout |-> 30000, cwd |-> "/other"] }
OptionConfigs ==
    { [command |-> "gt", args |-> args, dedupe |-> dedupe, timeout |-> o.timeout, cwd |-> o.cwd] :
          args \in ArgLists, dedupe \in BOOLEAN, o \in Options }

NextLimiterOptions ==
    \/ \E config \in OptionConfigs : LimiterExecute(config)
    \/ \E request \in running, kind \in ExecutorOutcomes : LimiterSettle(request, kind)

SpecLimiterOptions == InitLimiterAlone /\ [][NextLimiterOptions]_vars

\* Dedupe-enabled calls whose commands and argument lists contain the ':' that
\* getDedupeKey() joins them with.
KeyConfigs ==
    [command : {"gt", "gt:a"}, args : {<<"a", "b">>, <<"a:b">>, <<"b">>}, dedupe : {TRUE}]

NextLimiterKeys ==
    \/ \E config \in KeyConfigs : LimiterExecute(config)
    \/ \E request \in running, kind \in ExecutorOutcomes : LimiterSettle(request, kind)

SpecLimiterKeys == InitLimiterAlone /\ [][NextLimiterKeys]_vars
\* ------------------------------------------------------- limiter properties

\* C4: the requests the limiter has started and not finished never number more
\* than maxConcurrency, by its own activeCount and by the executions running.
ConcurrencyBound ==
    /\ activeCount <= maxConcurrency
    /\ Cardinality(running) <= maxConcurrency
    /\ activeCount = Cardinality(running)

ConcurrencyBoundWitness ==
    /\ maxConcurrency >= 2
    /\ activeCount = maxConcurrency
    /\ Len(queue) >= 1
    /\ lastOp = "execute"

\* C5: the executor is started for requests in the order they were queued (ids
\* grow with the order of the execute() calls), no request waits while a later
\* one has been started, and with maxConcurrency = 1 the executions finish in
\* that same order.
Increasing(seq) == \A i, j \in DOMAIN seq : i < j => seq[i] < seq[j]
FifoStart ==
    /\ Increasing(startOrder)
    /\ Increasing(Ids(queue))
    /\ \A i \in DOMAIN queue, j \in DOMAIN startOrder : startOrder[j] < queue[i].id
    /\ maxConcurrency = 1 => doneOrder = SubSeq(startOrder, 1, Len(doneOrder))

FifoStartWitness ==
    /\ maxConcurrency = 1
    /\ Len(calls) = 3
    /\ calls[2].waited /\ calls[3].waited
    /\ startOrder = <<1, 2, 3>>
    /\ doneOrder = <<1, 2>>

\* C6 (as the claim states it): of two dedupe-enabled calls with the same
\* command and args, the second made while the first was unsettled, the second
\* is handed the first one's execution (one executor call for the pair) and
\* both get the same outcome.
SameKey(c, d) == getDedupeKey(calls[c].config) = getDedupeKey(calls[d].config)
DedupIdempotence ==
    \A c, d \in DOMAIN calls :
        (c < d /\ SameKey(c, d) /\ calls[c].config.dedupe /\ calls[d].config.dedupe
               /\ c \in calls[d].concurrent) =>
            /\ calls[d].awaits = calls[c].awaits
            /\ (calls[c].outcome.kind # "pending" /\ calls[d].outcome.kind # "pending")
                   => calls[c].outcome = calls[d].outcome

\* C14: clear() rejects the caller of every queued request with 'Queue cleared'
\* and settles nobody else, leaves the queue and the in-flight map empty and
\* activeCount and the executing requests as they were; and every execution
\* that finishes, before or after a clear(), has settled the caller that queued
\* it with the outcome of that execution.
ClearStep == lastOp' = "clear"
ClearEffect ==
    ClearStep =>
        /\ DOMAIN settled' = Range(Ids(queue))
        /\ \A c \in Range(Ids(queue)) : settled'[c] = QueueCleared /\ calls'[c].outcome = QueueCleared
        /\ queue' = <<>>
        /\ inFlight' = NoEntries
        /\ UNCHANGED <<activeCount, running>>
ExecutingSettled ==
    \A i \in DOMAIN doneOrder :
        /\ calls[doneOrder[i]].outcome.kind \in ExecutorOutcomes
        /\ calls[doneOrder[i]].outcome.src = doneOrder[i]
ClearRejectsQueued == [][ClearEffect]_vars /\ []ExecutingSettled

ClearRejectsQueuedWitness ==
    /\ maxConcurrency = 2
    /\ lastOp = "settle"
    /\ Len(calls) = 3
    /\ calls[3].outcome = QueueCleared
    /\ calls[1].outcome.kind = "resolved" /\ calls[1].outcome.src = 1
    /\ calls[2].outcome.kind = "pending"
    /\ doneOrder = <<1>>
    /\ activeCount = 1
    /\ queue = <<>>

\* C15: the executor is called at most once for a request (a started request is
\* either executing or finished, never both, and never started again), and
\* when an execution settles, the caller that queued it and every caller
\* settled with it hold exactly what the executor's promise held: the same
\* resolved value, or the same error.
NoRepeats(seq) == \A i, j \in DOMAIN seq : i # j => seq[i] # seq[j]
ExecutorOnceExact ==
    /\ NoRepeats(startOrder)
    /\ NoRepeats(doneOrder)
    /\ Range(startOrder) = Range(doneOrder) \cup {r.id : r \in running}
    /\ \A r \in running : r.id \notin Range(doneOrder)
    /\ lastOp = "settle" =>
            /\ Len(delivered) = 1
            /\ calls[delivered[1].src].outcome = delivered[1]
            /\ \A c \in DOMAIN settled : settled[c] = delivered[1] /\ calls[c].outcome = delivered[1]

ExecutorOnceExactWitness ==
    /\ lastOp = "settle"
    /\ Len(delivered) = 1
    /\ delivered[1].kind = "rejected"
    /\ delivered[1].src = 2
    /\ calls[2].waited
    /\ calls[2].outcome = [kind |-> "rejected", src |-> 2, value |-> "error"]
    /\ calls[1].outcome = [kind |-> "resolved", src |-> 1, value |-> "result"]

\* C16: a call made with dedupe: false is never handed another request's
\* execution, no other call is ever handed its execution, and the executor is
\* started for it at most once: it is queued, or was started once, or was
\* rejected by clear() while queued.
NoSharing ==
    \A c \in DOMAIN calls :
        ~calls[c].config.dedupe =>
            /\ calls[c].awaits = c
            /\ \A d \in DOMAIN calls : d # c => calls[d].awaits # c
            /\ Cardinality({i \in DOMAIN startOrder : startOrder[i] = c}) <= 1
            /\ \/ c \in Range(startOrder)
               \/ c \in Range(Ids(queue))
               \/ calls[c].outcome = QueueCleared

NoSharingWitness ==
    /\ maxConcurrency = 2
    /\ Len(calls) = 3
    /\ calls[1].config.dedupe /\ ~calls[2].config.dedupe /\ calls[3].config.dedupe
    /\ SameKey(1, 2) /\ SameKey(2, 3)
    /\ 1 \in calls[2].concurrent
    /\ startOrder = <<1, 2>>
    /\ calls[2].awaits = 2
    /\ calls[3].awaits = 1
    /\ PendingCalls = {1, 2, 3}

\* C28 (as the claim states it): a dedupe-enabled call that arrives while a
\* dedupe-enabled request with the same command and args, and another timeout
\* or cwd, is executing is handed that execution: the executor is not called
\* again, and the calls that share an execution get the same outcome.
SameCommand(c, d) == c.command = d.command /\ c.args = d.args
Executing(config) ==
    {r \in running : /\ r.config.dedupe
                     /\ SameCommand(r.config, config)
                     /\ (r.config.timeout # config.timeout \/ r.config.cwd # config.cwd)}
OptionsShareStep ==
    LET d == Len(calls')
    IN  (Len(calls') = Len(calls) + 1 /\ calls'[d].config.dedupe
            /\ Executing(calls'[d].config) # {}) =>
            /\ running' = running
            /\ startOrder' = startOrder
            /\ \E r \in Executing(calls'[d].config) : calls'[d].awaits = r.id
SharedOutcome ==
    \A c, d \in DOMAIN calls :
        (calls[c].awaits = calls[d].awaits /\ calls[c].outcome.kind # "pending"
            /\ calls[d].outcome.kind # "pending") => calls[c].outcome = calls[d].outcome
OptionsDedupedTogether == [][OptionsShareStep]_vars /\ []SharedOutcome

\* C29 (as the claim states it): two dedupe-enabled calls whose command or
\* argument list differ have different dedupe keys and are never handed the
\* same execution.
DistinctCommandsDistinctKeys ==
    \A c, d \in DOMAIN calls :
        (calls[c].config.dedupe /\ calls[d].config.dedupe
            /\ ~SameCommand(calls[c].config, calls[d].config)) =>
            /\ getDedupeKey(calls[c].config) # getDedupeKey(calls[d].config)
            /\ calls[c].awaits # calls[d].awaits

\* C30 (as the claim states it): inFlight has an entry for a key exactly when
\* a dedupe-enabled request with that key is executing, and the entry is the
\* promise of such a request.
ExecutingWithKey(k) == {r \in running : r.config.dedupe /\ getDedupeKey(r.config) = k}
InFlightExact ==
    \A k \in {getDedupeKey(config) : config \in Configs} :
        /\ k \in DOMAIN inFlight <=> ExecutingWithKey(k) # {}
        /\ k \in DOMAIN inFlight => \E r \in ExecutingWithKey(k) : inFlight[k] = r.id

\* C34: after every execute() call, settlement and clear(), no request is
\* queued while a slot is free: a non-empty queue means activeCount has reached
\* maxConcurrency (which is at least 1).
WorkConserving ==
    /\ maxConcurrency >= 1
    /\ Len(queue) > 0 => activeCount >= maxConcurrency

WorkConservingWitness ==
    /\ maxConcurrency = 1
    /\ lastOp = "settle"
    /\ doneOrder = <<1>>
    /\ startOrder = <<1, 2>>
    /\ Len(queue) = 1
    /\ activeCount = 1

\* C35: when every started executor eventually settles, every call accepted by
\* execute() eventually settles, either with the outcome of the execution it
\* waits for, which was started, or rejected by clear() while it was queued
\* and never started.
SettledCall(c) ==
    /\ c \in DOMAIN calls
    /\ \/ calls[c].outcome = QueueCleared /\ calls[c].awaits = c /\ c \notin Range(startOrder)
       \/ /\ calls[c].outcome.kind \in ExecutorOutcomes
          /\ calls[c].outcome.src = calls[c].awaits
          /\ calls[c].awaits \in Range(doneOrder)
EveryRequestSettles ==
    \A c \in 1..MaxCalls : (c \in DOMAIN calls) ~> SettledCall(c)

EveryRequestSettlesWitness ==
    /\ maxConcurrency = 1
    /\ Len(calls) = 3
    /\ calls[2].waited
    /\ SettledCall(2) /\ calls[2].outcome.kind = "resolved"
    /\ calls[3].waited
    /\ SettledCall(3) /\ calls[3].outcome = QueueCleared
    /\ SettledCall(1)

\* C33 (as the claim states it): every request that has been started was
\* executed by the executor passed in the execute() call that queued it.
OwnExecutor ==
    \A id \in DOMAIN executors.ran : executors.ran[id] = executors.passed[id]

\* ========================================================= ProcessSupervisor

\* formatCommand(config)
formatCommand(config) == config.command \o " " \o join(config.args, " ")

\* failResult(error, config)
failResult(error, config) ==
    [success |-> FALSE, data |-> "null", error |-> error, exitCode |-> -1,
     duration |-> 0, command |-> formatCommand(config)]

DestroyedError == "Process supervisor has been destroyed"
BreakerOpenError == "Circuit breaker is open - CLI is unavailable"

\* What execFile can hand to its callback. hasCode tells whether error.code is a
\* number; spawn tells whether the child also emits 'error' (the process could
\* not be started), in which case the callback and the listener both run.
ProcessResults ==
    { [failed |-> FALSE, killed |-> FALSE, message |-> "", hasCode |-> FALSE, code |-> 0,
       stdout |-> "{}", stderr |-> "", spawn |-> FALSE],
      [failed |-> FALSE, killed |-> FALSE, message |-> "", hasCode |-> FALSE, code |-> 0,
       stdout |-> "plain text", stderr |-> "", spawn |-> FALSE],
      [failed |-> TRUE, killed |-> FALSE, message |-> "Command failed", hasCode |-> TRUE, code |-> 1,
       stdout |-> "", stderr |-> "boom", spawn |-> FALSE],
      [failed |-> TRUE, killed |-> TRUE, message |-> "Command failed", hasCode |-> FALSE, code |-> 0,
       stdout |-> "", stderr |-> "", spawn |-> FALSE],
      [failed |-> TRUE, killed |-> FALSE, message |-> "spawnSync ETIMEDOUT", hasCode |-> FALSE, code |-> 0,
       stdout |-> "", stderr |-> "", spawn |-> FALSE],
      [failed |-> TRUE, killed |-> FALSE, message |-> "spawn ENOENT", hasCode |-> FALSE, code |-> 0,
       stdout |-> "", stderr |-> "", spawn |-> TRUE] }

\* JSON.parse(stdout), with the raw text as the fallback (part_003:113-118)
IsJson(text) == text \in {"{}"}
parseOutput(stdout) == IF IsJson(stdout) THEN "json " \o stdout ELSE stdout

\* error.message.includes('ETIMEDOUT')
IsTimeoutMessage(message) == message \in {"spawnSync ETIMEDOUT"}

callbackResult_strictJson(request, res, duration) ==
    IF res.failed \/ ~IsJson(res.stdout) THEN
        [success |-> FALSE, data |-> "null",
         error |-> IF res.killed THEN "Process was killed"
                   ELSE IF IsTimeoutMessage(res.message) THEN "Command timed out"
                   ELSE IF res.stderr # "" THEN res.stderr ELSE res.message,
         exitCode |-> IF res.hasCode THEN res.code ELSE -1,
         duration |-> duration, command |-> formatCommand(request.config)]
    ELSE
        [success |-> TRUE, data |-> parseOutput(res.stdout), error |-> "null",
         exitCode |-> 0, duration |-> duration, command |-> formatCommand(request.config)]

callbackResult_keepsOutput(request, res, duration) ==
    IF res.failed THEN
        [success |-> FALSE, data |-> res.stdout,
         error |-> IF res.killed THEN "Process was killed"
                   ELSE IF IsTimeoutMessage(res.message) THEN "Command timed out"
                   ELSE IF res.stderr # "" THEN res.stderr ELSE res.message,
         exitCode |-> IF res.hasCode THEN res.code ELSE -1,
         duration |-> duration, command |-> formatCommand(request.config)]
    ELSE
        [success |-> TRUE, data |-> parseOutput(res.stdout), error |-> "null",
         exitCode |-> 0, duration |-> duration, command |-> formatCommand(request.config)]

\* The envelope the execFile callback resolves the invocation with.
callbackResult(request, res, duration) ==
    IF res.failed THEN
        [success |-> FALSE, data |-> "null",
         error |-> IF res.killed THEN "Process was killed"
                   ELSE IF IsTimeoutMessage(res.message) THEN "Command timed out"
                   ELSE IF res.stderr # "" THEN res.stderr ELSE res.message,
         exitCode |-> IF res.hasCode THEN res.code ELSE -1,
         duration |-> duration, command |-> formatCommand(request.config)]
    ELSE
        [success |-> TRUE, data |-> parseOutput(res.stdout), error |-> "null",
         exitCode |-> 0, duration |-> duration, command |-> formatCommand(request.config)]

\* The breaker after the handlers of one completion ran: the execFile callback
\* records a success or a failure, and the 'error' listener, when the child
\* emits 'error', records a failure of its own.
breakerAfterExit(b, res, t) ==
    LET afterCallback == IF res.failed THEN recordFailure(b, t) ELSE recordSuccess(b)
    IN  IF res.spawn THEN recordFailure(afterCallback, t) ELSE afterCallback

spawnAll_uncounted(started, t) ==
    [totalSpawned |-> totalSpawned,
     activeProcesses |-> activeProcesses \cup Range(Ids(started)),
     children |-> [id \in DOMAIN children \cup Range(Ids(started)) |->
                      IF id \in DOMAIN children THEN children[id] ELSE t]]

\* executeCommand() up to the return of execFile, for each started request
spawnAll(started, t) ==
    [totalSpawned |-> totalSpawned + Len(started),
     activeProcesses |-> activeProcesses \cup Range(Ids(started)),
     children |-> [id \in DOMAIN children \cup Range(Ids(started)) |->
                      IF id \in DOMAIN children THEN children[id] ELSE t]]

untrack_leaks(processes, id) == processes

\* this.activeProcesses.delete(processId), in the callback and in the listener
untrack(processes, id) == processes \ {id}

destroy_leavesQueue ==
    [destroyed |-> TRUE, activeProcesses |-> {}, queue |-> queue, inFlight |-> inFlight,
     calls |-> calls]

destroy_keepsTable ==
    [destroyed |-> TRUE, activeProcesses |-> activeProcesses, queue |-> <<>>,
     inFlight |-> NoEntries, calls |-> clearCallers]

\* destroy(): the latch, the process table, the limiter's queue and in-flight
\* map and the callers' promises when it returns.
destroy ==
    [destroyed |-> TRUE, activeProcesses |-> {}, queue |-> <<>>, inFlight |-> NoEntries,
     calls |-> clearCallers]

execute_noLatch(config) ==
    LET gate == canExecute(cb, now)
    IN  IF ~gate.result THEN [path |-> "open", cb |-> gate.cb, gated |-> TRUE]
        ELSE [path |-> "limiter", cb |-> gate.cb, gated |-> TRUE]

execute_noGate(config) ==
    IF destroyed THEN [path |-> "destroyed", cb |-> cb, gated |-> FALSE]
    ELSE [path |-> "limiter", cb |-> canExecute(cb, now).cb, gated |-> TRUE]

\* execute(): which of its three returns the call takes, the breaker after the
\* canExecute() call when one is made, and whether it was made.
execute(config) ==
    IF destroyed THEN [path |-> "destroyed", cb |-> cb, gated |-> FALSE]
    ELSE LET gate == canExecute(cb, now)
         IN  IF ~gate.result THEN [path |-> "open", cb |-> gate.cb, gated |-> TRUE]
             ELSE [path |-> "limiter", cb |-> gate.cb, gated |-> TRUE]

\* gt(args, opts): the calls the host makes through the gt wrapper, with and
\* without deduplication.
gt(args, dedupe) == [command |-> "gt", args |-> args, dedupe |-> dedupe]
SupervisorConfigs == {gt(args, dedupe) : args \in ArgLists, dedupe \in BOOLEAN}

InitSupervisorAll ==
    /\ threshold \in 1..MaxThreshold
    /\ resetTimeMs = 1
    /\ maxConcurrency \in 1..MaxConcurrency
    /\ now = 1
    /\ cb = NewBreaker
    /\ canExecuteResult = TRUE
    /\ cbBefore = NewBreaker
    /\ failStreak = 0
    /\ okStreak = 0
    /\ runLength = 0
    /\ failedAt = 0
    /\ lastOp = "new"
    /\ InitLimiter
    /\ InitSupervisor
    /\ InitCache

GhostFrame ==
    UNCHANGED <<configVars, lastOp, canExecuteResult, cbBefore, failStreak, okStreak,
                runLength, failedAt, startOrder, doneOrder, executors, cacheVars>>

Resolved(id, envelope) == [kind |-> "resolved", src |-> id, value |-> envelope]

\* trials after a step that takes the breaker from `before` to `after` and
\* records `counted` successes of invocations admitted in HALF_OPEN.
trialsAfter(before, after, counted) ==
    IF after.state # "HALF_OPEN" THEN 0
    ELSE IF before.state = "HALF_OPEN" THEN trials + counted
    ELSE 0

\* A call whose caller has been answered: the supervisor keeps nothing of it.
Answered ==
    [config |-> [command |-> "gt", args |-> <<"status">>, dedupe |-> TRUE], awaits |-> 0,
     outcome |-> [kind |-> "answered", src |-> 0, value |-> "none"],
     concurrent |-> {}, waited |-> FALSE, admitted |-> "none"]
forget(cs) == [c \in DOMAIN cs |-> IF cs[c].outcome.kind = "pending" THEN cs[c] ELSE Answered]

\* ProcessSupervisor.execute(commandConfig)
SupervisorExecute(config) ==
    LET id == Len(calls) + 1
        e == execute(config)
        call == [config |-> config, awaits |-> id, outcome |-> Pending,
                 concurrent |-> {}, waited |-> FALSE, admitted |-> e.cb.state]
        idle == UNCHANGED <<queue, inFlight, activeCount, running, totalSpawned,
                            activeProcesses, children>>
    IN  /\ id <= MaxCalls
        /\ cb' = e.cb
        /\ canExecuteCalled' = e.gated
        /\ trials' = trialsAfter(cb, e.cb, 0)
        /\ delivered' = <<>>
        /\ CASE e.path = "destroyed" ->
                  /\ calls' = Append(calls, Answered)
                  /\ settled' = [c \in {id} |-> Resolved(0, failResult(DestroyedError, config))]
                  /\ idle
             [] e.path = "open" ->
                  /\ calls' = Append(calls, Answered)
                  /\ settled' = [c \in {id} |-> Resolved(0, failResult(BreakerOpenError, config))]
                  /\ idle
             [] e.path = "limiter" /\ existing(config) # 0 ->
                  /\ calls' = Append(calls, [call EXCEPT !.awaits = existing(config)])
                  /\ settled' = NoEntries
                  /\ idle
             [] e.path = "limiter" /\ existing(config) = 0 ->
                  LET L == enqueue([id |-> id, config |-> config])
                      P == spawnAll(L.started, now)
                  IN  /\ queue' = L.queue
                      /\ activeCount' = L.activeCount
                      /\ inFlight' = L.inFlight
                      /\ running' = running \cup Range(L.started)
                      /\ calls' = Append(calls, call)
                      /\ settled' = NoEntries
                      /\ totalSpawned' = P.totalSpawned
                      /\ activeProcesses' = P.activeProcesses
                      /\ children' = P.children
        /\ UNCHANGED <<now, destroyed>>
        /\ GhostFrame

\* A child's completion is delivered: the execFile callback (and the 'error'
\* listener) run, the invocation's promise resolves, and the limiter's handlers
\* settle the callers, free the slot and start what is queued.
ProcessExit(request, res) ==
    LET envelope == callbackResult(request, res, now - children[request.id])
        after == settleCallers(request, Resolved(request.id, envelope))
        L == finally(request)
        P == spawnAll(L.started, now)
    IN  /\ request \in running
        /\ cb' = breakerAfterExit(cb, res, now)
        /\ trials' = trialsAfter(cb, breakerAfterExit(cb, res, now),
                                 IF ~res.failed /\ calls[request.id].admitted = "HALF_OPEN"
                                 THEN 1 ELSE 0)
        /\ calls' = forget(after)
        /\ settled' = settledIn(after)
        /\ delivered' = <<res>>
        /\ queue' = L.queue
        /\ activeCount' = L.activeCount
        /\ inFlight' = L.inFlight
        /\ running' = (running \ {request}) \cup Range(L.started)
        /\ totalSpawned' = P.totalSpawned
        /\ activeProcesses' = untrack(activeProcesses, request.id) \cup Range(Ids(L.started))
        /\ children' = MapDelete(P.children, request.id)
        /\ canExecuteCalled' = FALSE
        /\ UNCHANGED <<now, destroyed>>
        /\ GhostFrame

\* ProcessSupervisor.destroy()
Destroy ==
    /\ destroyed' = destroy.destroyed
    /\ activeProcesses' = destroy.activeProcesses
    /\ calls' = forget(destroy.calls)
    /\ settled' = settledIn(destroy.calls)
    /\ delivered' = <<>>
    /\ queue' = destroy.queue
    /\ inFlight' = destroy.inFlight
    /\ canExecuteCalled' = FALSE
    /\ UNCHANGED <<now, cb, activeCount, running, totalSpawned, children, trials>>
    /\ GhostFrame

\* ProcessSupervisor.resetCircuitBreaker()
ResetCircuitBreaker ==
    /\ cb' = reset(cb)
    /\ trials' = 0
    /\ settled' = NoEntries
    /\ delivered' = <<>>
    /\ canExecuteCalled' = FALSE
    /\ UNCHANGED <<now, queue, inFlight, activeCount, running, calls, destroyed,
                   totalSpawned, activeProcesses, children>>
    /\ GhostFrame

\* Date.now() moves on between two operations.
SupervisorTick ==
    /\ now < MaxSupervisorTime
    /\ now' = now + 1
    /\ settled' = NoEntries
    /\ delivered' = <<>>
    /\ canExecuteCalled' = FALSE
    /\ UNCHANGED <<cb, queue, inFlight, activeCount, running, calls, destroyed,
                   totalSpawned, activeProcesses, children, trials>>
    /\ GhostFrame

Init == InitSupervisorAll

Next ==
    \/ \E config \in SupervisorConfigs : SupervisorExecute(config)
    \/ \E request \in running, res \in ProcessResults : ProcessExit(request, res)
    \/ Destroy
    \/ ResetCircuitBreaker
    \/ SupervisorTick

Spec == Init /\ [][Next]_vars
\* ---------------------------------------------------- supervisor properties

\* The last step answered call c with an envelope / with a rejection.
Enveloped(c) == c \in DOMAIN settled /\ settled[c].kind = "resolved"
Rejected(c) == c \in DOMAIN settled /\ settled[c].kind = "rejected"

\* C1 (as the claim states it): no execute() call is ever rejected; whatever
\* settles a call hands its caller an envelope.
ExecuteNeverRejects ==
    \A c \in DOMAIN settled : Enveloped(c)

\* A step that is one execute() call, and the envelope it returned at once.
ExecuteStep == Len(calls') = Len(calls) + 1
RefusedIn(answers, c, error) ==
    /\ DOMAIN answers = {c}
    /\ answers[c].kind = "resolved"
    /\ answers[c].src = 0
    /\ answers[c].value.success = FALSE
    /\ answers[c].value.data = "null"
    /\ answers[c].value.error = error
    /\ answers[c].value.exitCode = -1
    /\ answers[c].value.duration = 0

\* C2: once destroyed, every execute() returns the failure envelope (exitCode -1,
\* duration 0) at once, spawns nothing, does not call canExecute() and leaves
\* the breaker, the queue, the in-flight map and the process table as they were.
DestroyedLatch ==
    [][(destroyed /\ ExecuteStep) =>
          /\ RefusedIn(settled', Len(calls'), DestroyedError)
          /\ ~canExecuteCalled'
          /\ UNCHANGED <<cb, queue, inFlight, activeCount, running, totalSpawned,
                         activeProcesses, children, destroyed>>]_vars

DestroyedLatchWitness ==
    /\ destroyed
    /\ Len(calls) = 3
    /\ totalSpawned = 0
    /\ cb = NewBreaker
    /\ RefusedIn(settled, 3, DestroyedError)

\* C3: an execute() on a live supervisor for which canExecute() is false returns
\* the failure envelope (exitCode -1, duration 0) at once and changes neither the
\* breaker nor the queue, the active count, the process table or totalSpawned;
\* and with threshold 1 a failed invocation leaves the breaker refusing, so the
\* next execute() starts no process.
FailedInvocation ==
    \E c \in DOMAIN settled : Enveloped(c) /\ settled[c].src # 0 /\ ~settled[c].value.success
TripsAtOne ==
    (threshold = 1 /\ FailedInvocation) =>
        (cb.state = "OPEN" /\ canExecute(cb, now).result = FALSE)
RefusalFrame ==
    (~destroyed /\ ExecuteStep /\ canExecute(cb, now).result = FALSE) =>
        /\ RefusedIn(settled', Len(calls'), BreakerOpenError)
        /\ UNCHANGED <<cb, queue, inFlight, activeCount, running, totalSpawned,
                       activeProcesses, children, destroyed>>
BreakerOpenRefusal == []TripsAtOne /\ [][RefusalFrame]_vars

BreakerOpenRefusalWitness ==
    /\ threshold = 1
    /\ ~destroyed
    /\ totalSpawned = 1
    /\ running = {}
    /\ cb.state = "OPEN"
    /\ cb.failureCount = 1
    /\ Len(calls) = 2
    /\ RefusedIn(settled, 2, BreakerOpenError)

\* C17: a completion without a process error records a success on the breaker
\* and answers every caller with a success envelope, exitCode 0, whose data is
\* the parsed stdout, or the raw stdout when it is not JSON; a completion with
\* a process error, a failed spawn included, records a failure on the breaker
\* (stamped now) and answers every caller with a failure envelope.
ExitStep == delivered' # <<>>
CompletionOutcome ==
    ExitStep =>
        LET res == delivered'[1]
        IN  /\ DOMAIN settled' # {}
            /\ \A c \in DOMAIN settled' : settled'[c].kind = "resolved" /\ settled'[c].src # 0
            /\ ~res.failed =>
                  /\ cb' = recordSuccess(cb)
                  /\ \A c \in DOMAIN settled' :
                        /\ settled'[c].value.success = TRUE
                        /\ settled'[c].value.exitCode = 0
                        /\ settled'[c].value.error = "null"
                        /\ settled'[c].value.data =
                              IF IsJson(res.stdout) THEN "json " \o res.stdout ELSE res.stdout
            /\ res.failed =>
                  /\ \/ cb' = recordFailure(cb, now)
                     \/ res.spawn /\ cb' = recordFailure(recordFailure(cb, now), now)
                  /\ cb'.failureCount > cb.failureCount
                  /\ cb'.lastFailureTime = now
                  /\ \A c \in DOMAIN settled' :
                        /\ settled'[c].value.success = FALSE
                        /\ settled'[c].value.data = "null"
                        /\ settled'[c].value.error # "null"
CompletionRecorded == [][CompletionOutcome]_vars

CompletionRecordedWitness ==
    /\ threshold = 2
    /\ totalSpawned = 2
    /\ Len(delivered) = 1
    /\ ~delivered[1].failed
    /\ delivered[1].stdout = "plain text"
    /\ cb.state = "CLOSED" /\ cb.failureCount = 0 /\ cb.lastFailureTime >= 1
    /\ \E c \in DOMAIN settled :
          /\ settled[c].value.success = TRUE
          /\ settled[c].value.exitCode = 0
          /\ settled[c].value.data = "plain text"

\* C18: every step adds to totalSpawned exactly the number of invocations it
\* starts, so the counter never decreases; an execute() that is refused
\* (destroyed, or canExecute() false) or handed an in-flight execution leaves
\* it as it was.
SpawnCount ==
    /\ totalSpawned' = totalSpawned + Cardinality(running' \ running)
    /\ totalSpawned' >= totalSpawned
    /\ (ExecuteStep /\ (destroyed \/ canExecute(cb, now).result = FALSE
                                  \/ calls'[Len(calls')].awaits # Len(calls'))) =>
            /\ totalSpawned' = totalSpawned
            /\ running' = running
SpawnedCounter == [][SpawnCount]_vars

SpawnedCounterWitness ==
    /\ totalSpawned = 2
    /\ Len(calls) = 3
    /\ running = {}
    /\ cb.state = "OPEN"
    /\ cb.failureCount >= 2
    /\ Len(delivered) = 1
    /\ delivered[1].failed
    /\ Cardinality(DOMAIN settled) = 2

\* C19: while the supervisor is live the process table holds exactly the
\* invocations that are running; in every state it holds no invocation that has
\* settled, whether it completed, failed or could not be spawned, and after
\* destroy() it is empty; with nothing running it is empty.
ProcessTable ==
    /\ activeProcesses \subseteq {r.id : r \in running}
    /\ ~destroyed => activeProcesses = {r.id : r \in running}
    /\ destroyed => activeProcesses = {}
    /\ running = {} => activeProcesses = {}
    /\ DOMAIN children = {r.id : r \in running}

ProcessTableWitness ==
    /\ ~destroyed
    /\ totalSpawned = 2
    /\ Len(delivered) = 1
    /\ delivered[1].spawn
    /\ {r.id : r \in running} = {2}
    /\ activeProcesses = {2}

\* C20: the latch, once set, stays set; the destroy() that sets it empties the
\* process table, the queue and the in-flight map, rejects the queued callers
\* and leaves the breaker, the active count and totalSpawned alone; and in
\* every destroyed state a further destroy() changes nothing.
DestroyLatches == destroyed => destroyed'
FirstDestroy ==
    (~destroyed /\ destroyed') =>
        /\ activeProcesses' = {}
        /\ queue' = <<>>
        /\ inFlight' = NoEntries
        /\ DOMAIN settled' = Range(Ids(queue))
        /\ \A c \in DOMAIN settled' : settled'[c] = QueueCleared
        /\ UNCHANGED <<cb, activeCount, running, totalSpawned>>
SecondDestroy ==
    destroyed =>
        /\ destroy.destroyed = destroyed
        /\ destroy.activeProcesses = activeProcesses
        /\ destroy.queue = queue
        /\ destroy.inFlight = inFlight
        /\ destroy.calls = calls
DestroyIdempotent == [][DestroyLatches /\ FirstDestroy]_vars /\ []SecondDestroy

DestroyIdempotentWitness ==
    /\ destroyed
    /\ maxConcurrency = 1
    /\ totalSpawned = 1
    /\ Cardinality(running) = 1
    /\ activeProcesses = {}
    /\ queue = <<>>
    /\ inFlight = NoEntries
    /\ \E c \in DOMAIN settled : settled[c] = QueueCleared

\* C31 (as the claim states it): no step starts a process while the breaker is
\* OPEN, whether the request is started by its own execute() call or taken
\* from the queue when another invocation completes.
StartsProcess == running' \ running # {}
NoStartWhileOpen == [][StartsProcess => cb'.state # "OPEN"]_vars

\* C32 (as the claim states it): the completion of one process updates the
\* breaker exactly once, by one recordSuccess() when there was no process error
\* and by one recordFailure() when there was one.
OneUpdate ==
    ExitStep =>
        cb' = IF delivered'[1].failed THEN recordFailure(cb, now) ELSE recordSuccess(cb)
OneBreakerUpdate == [][OneUpdate]_vars

\* C37: every envelope handed to a caller of execute() is well formed: with
\* success true its error is null and its exitCode 0; with success false its
\* data is null and its error a string; and the envelope of a refused call
\* (destroyed, breaker open), which no invocation produced, is a failure with
\* exitCode -1 and duration 0.
EnvelopeShape ==
    \A c \in DOMAIN settled :
        Enveloped(c) =>
            LET envelope == settled[c].value
            IN  /\ envelope.success => (envelope.error = "null" /\ envelope.exitCode = 0)
                /\ ~envelope.success => (envelope.data = "null" /\ envelope.error # "null")
                /\ settled[c].src = 0 =>
                      /\ ~envelope.success
                      /\ envelope.error \in {DestroyedError, BreakerOpenError}
                      /\ envelope.exitCode = -1
                      /\ envelope.duration = 0

EnvelopeShapeWitness ==
    \E c \in DOMAIN settled :
        /\ Enveloped(c)
        /\ settled[c].src # 0
        /\ ~settled[c].value.success
        /\ settled[c].value.data = "null"
        /\ settled[c].value.error = "boom"
        /\ settled[c].value.exitCode = 1
        /\ settled[c].value.duration = 1

\* C39: the process table never holds more children than the limiter counts
\* as active, the active count never exceeds maxConcurrency, and once the
\* supervisor is destroyed the table is empty in every state.
TableWithinSlots ==
    /\ Cardinality(activeProcesses) <= activeCount
    /\ activeCount <= maxConcurrency
    /\ destroyed => activeProcesses = {}

TableWithinSlotsWitness ==
    /\ destroyed
    /\ maxConcurrency = 2
    /\ totalSpawned = 2
    /\ Len(delivered) = 1
    /\ activeCount = 1
    /\ activeProcesses = {}

\* C40 (as the claim states it): only successes of invocations admitted while
\* the breaker was HALF_OPEN count toward closing it: in HALF_OPEN successCount
\* is the number of such successes, and the completion that closes the breaker
\* is the second of them.
Exited == CHOOSE request \in running : request \notin running'
ClosesByTrials ==
    (ExitStep /\ cb.state = "HALF_OPEN" /\ cb'.state = "CLOSED") =>
        /\ trials = halfOpenSuccessThreshold - 1
        /\ calls[Exited.id].admitted = "HALF_OPEN"
CountsTrialsOnly == cb.state = "HALF_OPEN" => cb.successCount = trials
TrialsCloseBreaker == [][ClosesByTrials]_vars /\ []CountsTrialsOnly

\* ================================================================== SWRCache

Keys == {"a", "b"}
Ttls == 1..MaxTtl

\* age < entry.ttl, at time t
isFresh_usesArgument(entry, ttlMs, t) == t - entry.fetchedAt < ttlMs
isFresh(entry, ttlMs, t) == t - entry.fetchedAt < entry.ttl

\* The entry cache.set() writes when fetch f resolves at time t. The data a
\* fetch resolves with is named by the fetch: fetch n yields n.
stored_keepsTtl(f, t) ==
    [data |-> f.id, fetchedAt |-> t,
     ttl |-> IF f.key \in DOMAIN cache THEN cache[f.key].ttl ELSE f.ttl]
stored(f, t) == [data |-> f.id, fetchedAt |-> t, ttl |-> f.ttl]

\* The cache after fetch f settled: written on success, left alone on failure.
afterFetch_dropsOnFailure(f, ok, t) ==
    IF ok THEN MapSet(cache, f.key, stored(f, t)) ELSE MapDelete(cache, f.key)
afterFetch(f, ok, t) ==
    IF ok THEN MapSet(cache, f.key, stored(f, t)) ELSE cache

\* The .finally() of a revalidation: pendingRevalidations.delete(key)
unmark_onSuccessOnly(f, ok) ==
    IF f.kind = "revalidation" /\ ok THEN MapDelete(pendingRevalidations, f.key)
    ELSE pendingRevalidations
unmark(f, ok) ==
    IF f.kind = "revalidation" THEN MapDelete(pendingRevalidations, f.key)
    ELSE pendingRevalidations

\* Whether get(key, ttlMs) calls the fetcher: on a miss, or on a stale entry
\* with no revalidation marked.
startsFetch(key, ttlMs) ==
    \/ key \notin DOMAIN cache
    \/ ~isFresh(cache[key], ttlMs, now) /\ key \notin DOMAIN pendingRevalidations

CacheFrame ==
    UNCHANGED <<configVars, lastOp, breakerVars, limiterVars, supervisorVars>>

\* SWRCache.get(key, ttlMs, fetcher), up to its first await or return
CacheGet(key, ttlMs) ==
    LET id == fetcherCalls + 1
    IN  /\ invalidated' = invalidated \ {key}
        /\ IF key \in DOMAIN cache THEN
               IF isFresh(cache[key], ttlMs, now) THEN
                   /\ cacheOp' = CacheOp("get", key, ttlMs, "fresh", cache[key].data, 0, TRUE)
                   /\ UNCHANGED <<cache, pendingRevalidations, fetches, fetcherCalls>>
               ELSE IF key \notin DOMAIN pendingRevalidations THEN
                   /\ fetcherCalls' = id
                   /\ fetches' = fetches \cup
                          {[id |-> id, key |-> key, ttl |-> ttlMs, kind |-> "revalidation"]}
                   /\ pendingRevalidations' = MapSet(pendingRevalidations, key, id)
                   /\ cacheOp' = CacheOp("get", key, ttlMs, "stale", cache[key].data, id, TRUE)
                   /\ UNCHANGED cache
               ELSE
                   /\ cacheOp' = CacheOp("get", key, ttlMs, "stale", cache[key].data, 0, TRUE)
                   /\ UNCHANGED <<cache, pendingRevalidations, fetches, fetcherCalls>>
           ELSE
               /\ fetcherCalls' = id
               /\ fetches' = fetches \cup {[id |-> id, key |-> key, ttl |-> ttlMs, kind |-> "miss"]}
               /\ cacheOp' = CacheOp("get", key, ttlMs, "miss", 0, id, TRUE)
               /\ UNCHANGED <<cache, pendingRevalidations>>
        /\ UNCHANGED now
        /\ CacheFrame

\* The promise of fetch f settles: resolved (ok) or rejected. For a miss the
\* awaiting get() stores the data and returns it, or throws; for a revalidation
\* the .then() stores the data and the .finally() drops the marker.
FetchSettle(f, ok) ==
    /\ f \in fetches
    /\ cache' = afterFetch(f, ok, now)
    /\ pendingRevalidations' = unmark(f, ok)
    /\ fetches' = fetches \ {f}
    /\ cacheOp' = CacheOp("fetched", f.key, f.ttl, f.kind, IF ok THEN f.id ELSE 0, f.id, ok)
    /\ UNCHANGED <<now, fetcherCalls, invalidated>>
    /\ CacheFrame

\* SWRCache.invalidate(key)
CacheInvalidate(key) ==
    /\ cache' = MapDelete(cache, key)
    /\ cacheOp' = CacheOp("invalidate", key, 0, "", 0, 0, TRUE)
    /\ invalidated' = invalidated \cup {key}
    /\ UNCHANGED <<now, pendingRevalidations, fetches, fetcherCalls>>
    /\ CacheFrame

\* SWRCache.clear()
CacheClear ==
    /\ cache' = NoEntries
    /\ pendingRevalidations' = NoEntries
    /\ cacheOp' = CacheOp("clear", "", 0, "", 0, 0, TRUE)
    /\ UNCHANGED <<now, fetches, fetcherCalls, invalidated>>
    /\ CacheFrame

\* Date.now() moves on between two operations.
CacheTick ==
    /\ now < MaxCacheTime
    /\ now' = now + 1
    /\ cacheOp' = CacheOp("tick", "", 0, "", 0, 0, TRUE)
    /\ UNCHANGED <<cache, pendingRevalidations, fetches, fetcherCalls, invalidated>>
    /\ CacheFrame

InitCacheAlone ==
    /\ threshold = 1
    /\ resetTimeMs = 1
    /\ maxConcurrency = 1
    /\ now = 1
    /\ cb = NewBreaker
    /\ canExecuteResult = TRUE
    /\ cbBefore = NewBreaker
    /\ failStreak = 0
    /\ okStreak = 0
    /\ runLength = 0
    /\ failedAt = 0
    /\ lastOp = "new"
    /\ InitLimiter
    /\ InitSupervisor
    /\ InitCache

\* get() calls that start no more than `limit` fetches in all
BoundedGet(key, ttlMs, limit) ==
    /\ startsFetch(key, ttlMs) => fetcherCalls < limit
    /\ CacheGet(key, ttlMs)

NextCache ==
    \/ \E key \in Keys, ttlMs \in Ttls : BoundedGet(key, ttlMs, MaxFetches)
    \/ \E f \in fetches, ok \in BOOLEAN : FetchSettle(f, ok)
    \/ \E key \in Keys : CacheInvalidate(key)
    \/ CacheClear
    \/ CacheTick

SpecCache == InitCacheAlone /\ [][NextCache]_vars

\* The same with one more fetch, for the runs in which a key is fetched, kept
\* fresh, cleared, fetched again and revalidated twice.
NextCacheRefetch ==
    \/ \E key \in Keys, ttlMs \in Ttls : BoundedGet(key, ttlMs, MaxRefetches)
    \/ \E f \in fetches, ok \in BOOLEAN : FetchSettle(f, ok)
    \/ \E key \in Keys : CacheInvalidate(key)
    \/ CacheClear
    \/ CacheTick

SpecCacheRefetch == InitCacheAlone /\ [][NextCacheRefetch]_vars

\* ---------------------------------------------------------- cache properties

\* The background revalidations running for key k.
Revalidations(k) == {f \in fetches : f.kind = "revalidation" /\ f.key = k}

\* C21 (as the claim states it): a get() on a stale entry returns the cached
\* value at once, and once it has returned exactly one background fetch is
\* running for the key: the one it started, or the one an earlier stale read
\* started and that has not completed.
StaleReadOneFetch ==
    (cacheOp.op = "get" /\ cacheOp.path = "stale") =>
        /\ cacheOp.ok
        /\ cacheOp.value = cache[cacheOp.key].data
        /\ Cardinality(Revalidations(cacheOp.key)) = 1

\* C22 (as the claim states it): a get() on a missing key calls the fetcher;
\* when the fetch resolves, the key's entry is the result with the current time
\* and the call's ttl, and the caller gets the result; when it rejects, the
\* caller gets the error and the cache has no entry for the key.
MissFetchOrNoEntry ==
    /\ (cacheOp.op = "get" /\ cacheOp.path = "miss") =>
            \E f \in fetches : f.id = cacheOp.fetch /\ f.id = fetcherCalls /\ f.kind = "miss"
    /\ (cacheOp.op = "fetched" /\ cacheOp.path = "miss") =>
            IF cacheOp.ok
            THEN /\ cacheOp.value = cacheOp.fetch
                 /\ cache[cacheOp.key] =
                        [data |-> cacheOp.value, fetchedAt |-> now, ttl |-> cacheOp.ttl]
            ELSE cacheOp.key \notin DOMAIN cache

\* C22 (amended): a get() on a missing key calls the fetcher and changes
\* nothing else; when the fetch resolves, the result is stored under the key
\* with the current time and the call's ttl and the caller gets it; when it
\* rejects, the caller gets the error and the cache is exactly as it was.
MissGetStep ==
    (cacheOp'.op = "get" /\ cacheOp'.key \notin DOMAIN cache) =>
        /\ cacheOp'.path = "miss"
        /\ fetcherCalls' = fetcherCalls + 1
        /\ cacheOp'.fetch = fetcherCalls'
        /\ fetches' = fetches \cup {[id |-> fetcherCalls', key |-> cacheOp'.key,
                                      ttl |-> cacheOp'.ttl, kind |-> "miss"]}
        /\ UNCHANGED <<cache, pendingRevalidations>>
MissSettleStep ==
    (cacheOp'.op = "fetched" /\ cacheOp'.path = "miss") =>
        IF cacheOp'.ok
        THEN /\ cacheOp'.value = cacheOp'.fetch
             /\ cache' = MapSet(cache, cacheOp'.key,
                    [data |-> cacheOp'.value, fetchedAt |-> now, ttl |-> cacheOp'.ttl])
             /\ UNCHANGED pendingRevalidations
        ELSE /\ cacheOp'.value = 0
             /\ UNCHANGED <<cache, pendingRevalidations>>
MissFetchStoresOrPropagates == [][MissGetStep /\ MissSettleStep]_vars

MissFetchStoresOrPropagatesWitness ==
    /\ cacheOp.op = "fetched"
    /\ cacheOp.path = "miss"
    /\ ~cacheOp.ok
    /\ cacheOp.fetch = 1
    /\ cacheOp.key \in DOMAIN cache
    /\ cache[cacheOp.key].data = 2

\* C23: a get() on an entry younger than the ttl stored in the entry returns
\* the entry's data, calls no fetcher and leaves the cache, the markers and the
\* running fetches as they were, whatever ttlMs it is given.
FreshHitStep ==
    (/\ cacheOp'.op = "get"
     /\ cacheOp'.key \in DOMAIN cache
     /\ now - cache[cacheOp'.key].fetchedAt < cache[cacheOp'.key].ttl) =>
        /\ cacheOp'.path = "fresh"
        /\ cacheOp'.ok
        /\ cacheOp'.value = cache[cacheOp'.key].data
        /\ cacheOp'.fetch = 0
        /\ UNCHANGED <<cache, pendingRevalidations, fetches, fetcherCalls>>
FreshHit == [][FreshHitStep]_vars

FreshHitWitness ==
    /\ cacheOp.op = "get"
    /\ cacheOp.path = "fresh"
    /\ cacheOp.ttl < cache[cacheOp.key].ttl
    /\ now - cache[cacheOp.key].fetchedAt >= cacheOp.ttl
    /\ cacheOp.value = cache[cacheOp.key].data
    /\ fetcherCalls = 1

\* C24: when a revalidation resolves, the key's entry becomes the fetched data
\* with the completion time and the ttl of the stale read that started the
\* fetch, and the key's marker is gone; and a get() that finds an entry younger
\* than its ttl returns that entry's data.
RevalidationStoresStep ==
    (cacheOp'.op = "fetched" /\ cacheOp'.path = "revalidation" /\ cacheOp'.ok) =>
        /\ cacheOp'.value = cacheOp'.fetch
        /\ cache' = MapSet(cache, cacheOp'.key,
               [data |-> cacheOp'.value, fetchedAt |-> now, ttl |-> cacheOp'.ttl])
        /\ cacheOp'.key \notin DOMAIN pendingRevalidations'
        /\ \E f \in fetches : /\ f.id = cacheOp'.fetch
                               /\ f.ttl = cacheOp'.ttl
                               /\ f.key = cacheOp'.key
                               /\ fetches' = fetches \ {f}
StaleReadStartsStep ==
    (cacheOp'.op = "get" /\ cacheOp'.path = "stale" /\ cacheOp'.fetch # 0) =>
        [id |-> cacheOp'.fetch, key |-> cacheOp'.key, ttl |-> cacheOp'.ttl,
         kind |-> "revalidation"] \in fetches'
FreshReadsEntry ==
    (cacheOp.op = "get" /\ cacheOp.path = "fresh") =>
        /\ cacheOp.value = cache[cacheOp.key].data
        /\ now - cache[cacheOp.key].fetchedAt < cache[cacheOp.key].ttl
RevalidationStores ==
    [][RevalidationStoresStep /\ StaleReadStartsStep]_vars /\ []FreshReadsEntry

RevalidationStoresWitness ==
    /\ now = 3
    /\ fetcherCalls = 2
    /\ fetches = {}
    /\ cacheOp = CacheOp("get", "a", 1, "fresh", 2, 0, TRUE)
    /\ cache["a"] = [data |-> 2, fetchedAt |-> 2, ttl |-> 2]
    /\ pendingRevalidations = NoEntries

\* C25 (as the claim states it): in every reachable state at most one
\* background revalidation is running for each key.
OneRevalidationPerKey ==
    \A k \in Keys : Cardinality(Revalidations(k)) <= 1

\* C26: when a revalidation rejects, the cache is exactly as it was and the
\* key's marker is gone, so a get() on the entry, still stale, returns its data
\* and calls the fetcher again; and every get() on a key that has an entry is
\* answered at once with the entry's data, never with an error.
RevalidationFailsStep ==
    (cacheOp'.op = "fetched" /\ cacheOp'.path = "revalidation" /\ ~cacheOp'.ok) =>
        /\ cache' = cache
        /\ cacheOp'.key \notin DOMAIN pendingRevalidations'
RetryAfterFailure ==
    (cacheOp.op = "fetched" /\ cacheOp.path = "revalidation" /\ ~cacheOp.ok) =>
        \A ttlMs \in Ttls :
            (cacheOp.key \in DOMAIN cache /\ ~isFresh(cache[cacheOp.key], ttlMs, now)) =>
                startsFetch(cacheOp.key, ttlMs)
EntryReadStep ==
    (cacheOp'.op = "get" /\ cacheOp'.key \in DOMAIN cache) =>
        /\ cacheOp'.ok
        /\ cacheOp'.value = cache[cacheOp'.key].data
        /\ cache' = cache
RevalidationFailureSwallowed ==
    [][RevalidationFailsStep /\ EntryReadStep]_vars /\ []RetryAfterFailure

RevalidationFailureSwallowedWitness ==
    /\ cacheOp.op = "fetched"
    /\ cacheOp.path = "revalidation"
    /\ ~cacheOp.ok
    /\ cacheOp.fetch = 2
    /\ cacheOp.key \in DOMAIN cache
    /\ cache[cacheOp.key].data = 1
    /\ now - cache[cacheOp.key].fetchedAt >= cache[cacheOp.key].ttl
    /\ pendingRevalidations = NoEntries

\* C27 (as the claim states it): the first get(key) after invalidate(key)
\* finds no entry and calls the fetcher, and invalidate(key) leaves the entries
\* of the other keys as they were.
InvalidatedReadStep ==
    (cacheOp'.op = "get" /\ cacheOp'.key \in invalidated) =>
        /\ cacheOp'.key \notin DOMAIN cache
        /\ cacheOp'.path = "miss"
        /\ fetcherCalls' = fetcherCalls + 1
InvalidateStep ==
    cacheOp'.op = "invalidate" =>
        /\ cacheOp'.key \notin DOMAIN cache'
        /\ \A k \in Keys \ {cacheOp'.key} :
              /\ k \in DOMAIN cache <=> k \in DOMAIN cache'
              /\ k \in DOMAIN cache => cache'[k] = cache[k]
InvalidateForcesRefetch == [][InvalidatedReadStep /\ InvalidateStep]_vars

====
